---- MODULE Spec2Model ----
(***************************************************************************)
(* The streaming search route of han9over/pubg                             *)
(* (src/src/app/api/search/route.ts): the process-wide rate gate, the      *)
(* rate-limited GET wrapper, the POST handler's ReadableStream producer    *)
(* and the telemetry interaction filter; with it the read loop of the      *)
(* page that consumes the stream (src/src/app/page.tsx) and the batch      *)
(* variant of the handler (src/unnamed/part_001).                          *)
(*                                                                         *)
(* JavaScript runs each handler to its next await without interleaving,   *)
(* so one action is one synchronous segment: from the arrival of a         *)
(* request, a timer or an upstream response to the next suspension.        *)
(***************************************************************************)
EXTENDS Integers, Sequences, FiniteSets, TLC

VARIABLES
  now,                \* Date.now(), a logical clock in ms
  requestTimestamps,  \* route.ts:31, the process-wide ledger
  issued,             \* history: every axios.get actually sent
  lastGate,           \* history: the latest enforceRateLimit invocation
  run,                \* per request slot: the state of one POST invocation
  telemetry,          \* input of the stand-alone interaction filter
  interactions,       \* output of the stand-alone interaction filter
  page,               \* the consumer: handleSearch's read loop (page.tsx)
  batch               \* the response of the batch POST handler (unnamed/part_001)

vars ==
  <<now, requestTimestamps, issued, lastGate, run, telemetry, interactions, page, batch>>

----------------------------------------------------------------------------
(* Program constants *)

RATE_LIMIT == 10

RATE_WINDOW_MS == 60000

(* Bounds of the model *)

TicksPerWindow == 2

MaxTicks == 2

MaxMatches == 3

GateMatches == 6

MaxEvents == 2

MaxRecords == 2

MaxText == 1

TickMs == RATE_WINDOW_MS \div TicksPerWindow

MaxTime == MaxTicks * TickMs

Runs == {1, 2}

----------------------------------------------------------------------------
(* Telemetry events and the interaction filter, route.ts:130-157 *)

None == "none"

playerId == "P"

opponentId == "O"

AccountIds == {playerId, opponentId, "X"}

MaybeAccount == AccountIds \cup {None}

\* The display name carried next to an accountId; absent roles have none.
NameOf(acc) == IF acc = None THEN None ELSE "name-" \o acc

DamageEvents ==
  [T : {"LogPlayerTakeDamage"}, attacker : MaybeAccount, victim : MaybeAccount,
   dBNOMaker : {None}, finisher : {None}, killer : {None}]

GroggyEvents ==
  [T : {"LogPlayerMakeGroggy"}, attacker : MaybeAccount, victim : MaybeAccount,
   dBNOMaker : {None}, finisher : {None}, killer : {None}]

KillEvents ==
  [T : {"LogPlayerKillV2"}, attacker : {None}, victim : MaybeAccount,
   dBNOMaker : MaybeAccount, finisher : MaybeAccount, killer : MaybeAccount]

OtherEvents ==
  [T : {"LogPlayerPosition"}, attacker : {None}, victim : {None},
   dBNOMaker : {None}, finisher : {None}, killer : {None}]

Events == DamageEvents \cup GroggyEvents \cup KillEvents \cup OtherEvents

Dmg(a, v) ==
  [T |-> "LogPlayerTakeDamage", attacker |-> a, victim |-> v,
   dBNOMaker |-> None, finisher |-> None, killer |-> None]

PairMatchesOneWay(actor, victim) == actor = playerId /\ victim = opponentId

\* event.x?.accountId === a && event.victim?.accountId === b, either way round
PairMatches(actor, victim) ==
  \/ actor = playerId /\ victim = opponentId
  \/ actor = opponentId /\ victim = playerId

isDamage(e) == e.T = "LogPlayerTakeDamage" /\ PairMatches(e.attacker, e.victim)

isKnock(e) == e.T = "LogPlayerMakeGroggy" /\ PairMatches(e.attacker, e.victim)

isKillFirstPresent(e) ==
  /\ e.T = "LogPlayerKillV2"
  /\ PairMatches(IF e.dBNOMaker /= None THEN e.dBNOMaker
                 ELSE IF e.finisher /= None THEN e.finisher ELSE e.killer, e.victim)

isKill(e) ==
  /\ e.T = "LogPlayerKillV2"
  /\ \/ PairMatches(e.dBNOMaker, e.victim)
     \/ PairMatches(e.finisher, e.victim)
     \/ PairMatches(e.killer, e.victim)

Qualifies(e) == isDamage(e) \/ isKnock(e) \/ isKill(e)

\* a || b || c || d over names, where an absent name is falsy
FirstName(e) ==
  IF e.attacker /= None THEN NameOf(e.attacker)
  ELSE IF e.dBNOMaker /= None THEN NameOf(e.dBNOMaker)
  ELSE IF e.finisher /= None THEN NameOf(e.finisher)
  ELSE NameOf(e.killer)

\* The .map callback; timestamp is event._D, here the event's place in the log.
ToInteraction(e, d) ==
  [type |-> e.T, timestamp |-> d, attacker |-> FirstName(e), victim |-> NameOf(e.victim)]

RECURSIVE FilterMapFrom(_, _)
FilterMapFrom(evs, k) ==
  IF k > Len(evs) THEN <<>>
  ELSE IF Qualifies(evs[k])
       THEN <<ToInteraction(evs[k], k)>> \o FilterMapFrom(evs, k + 1)
       ELSE FilterMapFrom(evs, k + 1)

\* telemetry.filter(...).map(...)
ExtractInteractions(evs) == FilterMapFrom(evs, 1)

----------------------------------------------------------------------------
(* The rate gate, route.ts:28-43 *)

Unexpired(ledger, t) == SelectSeq(ledger, LAMBDA ts : t - ts < RATE_WINDOW_MS)

enforceRateLimitAlwaysRecords(ledger, t) ==
  LET kept == Unexpired(ledger, t) IN
  IF Len(kept) >= RATE_LIMIT
  THEN [ledger |-> Append(kept, t), wait |-> RATE_WINDOW_MS - (t - kept[1])]
  ELSE [ledger |-> Append(kept, t), wait |-> 0]

enforceRateLimitPrepends(ledger, t) ==
  LET kept == Unexpired(ledger, t) IN
  IF Len(kept) >= RATE_LIMIT
  THEN [ledger |-> kept, wait |-> RATE_WINDOW_MS - (t - kept[1])]
  ELSE [ledger |-> <<t>> \o kept, wait |-> 0]

enforceRateLimitOffByOne(ledger, t) ==
  LET kept == Unexpired(ledger, t) IN
  IF Len(kept) > RATE_LIMIT
  THEN [ledger |-> kept, wait |-> RATE_WINDOW_MS - (t - kept[1])]
  ELSE [ledger |-> Append(kept, t), wait |-> 0]

\* enforceRateLimit() called when Date.now() = t: the ledger it leaves and
\* the wait it returns.
enforceRateLimit(ledger, t) ==
  LET kept == Unexpired(ledger, t) IN
  IF Len(kept) >= RATE_LIMIT
  THEN [ledger |-> kept, wait |-> RATE_WINDOW_MS - (t - kept[1])]
  ELSE [ledger |-> Append(kept, t), wait |-> 0]

----------------------------------------------------------------------------
(* Records of the output stream, route.ts:66-68 and the enqueue sites *)

Progress(text, idx, count) ==
  [tag |-> "progress", text |-> text, idx |-> idx, count |-> count, interactions |-> <<>>]

\* toZonedTime(utcDate, 'America/New_York') then format(..., 'yyyy-MM-dd HH:mm:ss'):
\* the wall clock of New York, 5 hours behind UTC, 4 under daylight saving.
FormatEST(createdAt) ==
  LET offset == IF createdAt.dst THEN 4 ELSE 5
      h == createdAt.hour - offset
  IN IF h < 0 THEN [day |-> createdAt.day - 1, hour |-> h + 24]
     ELSE [day |-> createdAt.day, hour |-> h]

\* { match: { id, map, startedAt, interactions } }
MatchRec(matchId, m, found) ==
  [tag |-> "match", text |-> "", idx |-> matchId, count |-> 0, interactions |-> found,
   map |-> m.mapName, startedAt |-> FormatEST(m.createdAt)]

Marker == [tag |-> "matches", text |-> "", idx |-> 0, count |-> 0, interactions |-> <<>>]

ErrorRec(text) ==
  [tag |-> "error", text |-> text, idx |-> 0, count |-> 0, interactions |-> <<>>]

----------------------------------------------------------------------------
(* One synchronous segment of start(controller) works on a context         *)
(*   c = [r: the run, ts: requestTimestamps, log: issued, gate: lastGate]  *)
(* and each statement is skipped once an exception is in flight            *)
(* (c.r.thrown /= "no").                                                   *)

Writable(r) == ~r.cancelled /\ r.closes = 0

\* enqueue(message): controller.enqueue throws a TypeError unless the stream
\* is readable and not close-requested.
Enq(c, msg) ==
  IF c.r.thrown /= "no" THEN c
  ELSE IF Writable(c.r)
       THEN [c EXCEPT !.r.stream = Append(@, msg)]
       ELSE [c EXCEPT !.r.thrown = "TypeError", !.r.lateEnq = @ + 1]

CloseForgotten(c) == c

\* controller.close(): throws under the same condition as enqueue.
Close(c) ==
  IF c.r.thrown /= "no" THEN c
  ELSE IF Writable(c.r)
       THEN [c EXCEPT !.r.closes = @ + 1]
       ELSE [c EXCEPT !.r.thrown = "TypeError", !.r.lateClose = @ + 1]

\* History: the run got as far as reading the primary player's match ids.
Listed(c) == IF c.r.thrown /= "no" THEN c ELSE [c EXCEPT !.r.listed = TRUE]

\* History: one more awaited axios.get of the run has settled.
Answered(c) == [c EXCEPT !.r.answered = @ + 1]

\* History: one more match id of the list is dealt with.
Processed(c) == IF c.r.thrown /= "no" THEN c ELSE [c EXCEPT !.r.processed = @ + 1]

\* return from start(): the run is over.
Return(c) == IF c.r.thrown /= "no" THEN c ELSE [c EXCEPT !.r.pc = "done"]

Call(rid, r, kind, t) ==
  [run |-> rid, kind |-> kind, idx |-> r.i, at |-> t, cancelled |-> r.cancelled,
   answered |-> r.answered, processed |-> r.processed, streamed |-> Len(r.stream),
   asked |-> r.askedAt]

\* rateLimitedAxiosGet up to its first suspension: the gate is asked once;
\* with a positive wait the run sleeps on setTimeout, otherwise axios.get is
\* sent at once.
Get(c, rid, kind) ==
  IF c.r.thrown /= "no" THEN c
  ELSE LET t == now
           g == enforceRateLimit(c.ts, t)
           seen == [called |-> TRUE, before |-> c.ts, at |-> t,
                    after |-> g.ledger, wait |-> g.wait]
       IN IF g.wait > 0
          THEN [c EXCEPT !.ts = g.ledger, !.gate = seen, !.r.pending = kind,
                         !.r.askedAt = t,
                         !.r.pc = "sleeping", !.r.wakeAt = t + g.wait]
          ELSE [c EXCEPT !.ts = g.ledger, !.gate = seen, !.r.pending = kind,
                         !.r.askedAt = t,
                         !.r.pc = "inflight",
                         !.log = Append(@, Call(rid, [c.r EXCEPT !.askedAt = t], kind, t))]

\* The catch block, route.ts:181-185.  A rejected axios call carries the
\* upstream detail or not; any other exception has no response.
CatchText(thrown) ==
  IF thrown = "upstream-detail" THEN "upstream-detail" ELSE "Failed to fetch data"

CatchNoClose(c) ==
  IF c.r.thrown = "no" THEN c
  ELSE Return(Enq([c EXCEPT !.r.thrown = "no"], ErrorRec(CatchText(c.r.thrown))))

Catch(c) ==
  IF c.r.thrown = "no" THEN c
  ELSE Return(Close(Enq([c EXCEPT !.r.thrown = "no"], ErrorRec(CatchText(c.r.thrown)))))

\* An exception that leaves the catch block rejects start()'s promise.
Settle(c) == IF c.r.thrown /= "no" THEN [c EXCEPT !.r.pc = "crashed"] ELSE c

----------------------------------------------------------------------------
(* The POST handler, route.ts:53-196 *)

Matches(r) == r.world.matches

NextMatchStopsEarly(c, rid, k) ==
  IF c.r.thrown /= "no" THEN c
  ELSE IF k >= Len(Matches(c.r))
       THEN Return(Close(Enq(Enq(c, Progress("Processing complete!", 0, 0)), Marker)))
       ELSE Get(Enq([c EXCEPT !.r.i = k],
                    Progress("Processing match", k, Len(Matches(c.r)))), rid, "match")

\* The for loop's head for the k-th id (processedCount = k), or the
\* completion after the last one, route.ts:96-102 and 177-180.
NextMatch(c, rid, k) ==
  IF c.r.thrown /= "no" THEN c
  ELSE IF k > Len(Matches(c.r))
       THEN Return(Close(Enq(Enq(c, Progress("Processing complete!", 0, 0)), Marker)))
       ELSE Get(Enq([c EXCEPT !.r.i = k],
                    Progress("Processing match", k, Len(Matches(c.r)))), rid, "match")

AfterPlayersPlayerOnly(c, rid) ==
  IF c.r.thrown /= "no" THEN c
  ELSE IF c.r.world.resolve \in {"noPlayer", "neither"}
       THEN Return(Close(Enq(c, ErrorRec("One or both players not found"))))
  ELSE IF c.r.world.resolve /= "both"
       THEN [c EXCEPT !.r.thrown = "TypeError"]
       ELSE NextMatch(Enq(Listed(c), Progress("Found recent matches", 0, Len(Matches(c.r)))),
                      rid, 1)

\* After `await rateLimitedAxiosGet(players)`, route.ts:78-94.
AfterPlayers(c, rid) ==
  IF c.r.thrown /= "no" THEN c
  ELSE IF c.r.world.resolve /= "both"
       THEN Return(Close(Enq(c, ErrorRec("One or both players not found"))))
       ELSE NextMatch(Enq(Listed(c), Progress("Found recent matches", 0, Len(Matches(c.r)))),
                      rid, 1)

AfterMatchNoSkip(c, rid) ==
  LET n == Len(Matches(c.r)) IN
  IF c.r.thrown /= "no" THEN c
  ELSE Get(Enq(c, Progress("Fetching telemetry", c.r.i, n)), rid, "telemetry")

AfterMatchAssetIgnored(c, rid) ==
  LET m == Matches(c.r)[c.r.i]
      n == Len(Matches(c.r))
  IN IF c.r.thrown /= "no" THEN c
     ELSE IF ~m.opp
          THEN NextMatch(Processed(Enq(c, Progress("Opponent not in match", c.r.i, n))),
                         rid, c.r.i + 1)
     ELSE Get(Enq(c, Progress("Fetching telemetry", c.r.i, n)), rid, "telemetry")

AfterMatchAssetUnchecked(c, rid) ==
  LET m == Matches(c.r)[c.r.i]
      n == Len(Matches(c.r))
  IN IF c.r.thrown /= "no" THEN c
     ELSE IF ~m.opp
          THEN NextMatch(Processed(Enq(c, Progress("Opponent not in match", c.r.i, n))),
                         rid, c.r.i + 1)
     ELSE IF ~m.asset
          THEN [c EXCEPT !.r.thrown = "TypeError"]
     ELSE Get(Enq(c, Progress("Fetching telemetry", c.r.i, n)), rid, "telemetry")

AfterMatchNoAwait(c, rid) ==
  LET m == Matches(c.r)[c.r.i]
      n == Len(Matches(c.r))
  IN IF c.r.thrown /= "no" THEN c
     ELSE IF ~m.opp
          THEN NextMatch(Processed(Enq(c, Progress("Opponent not in match", c.r.i, n))),
                         rid, c.r.i + 1)
     ELSE IF ~m.asset
          THEN NextMatch(Processed(Enq(c, Progress("No telemetry available", c.r.i, n))),
                         rid, c.r.i + 1)
     ELSE NextMatch(Processed(Get(Enq(c, Progress("Fetching telemetry", c.r.i, n)),
                                  rid, "telemetry")),
                    rid, c.r.i + 1)

\* After `await rateLimitedAxiosGet(match)`, route.ts:103-126.
AfterMatch(c, rid) ==
  LET m == Matches(c.r)[c.r.i]
      n == Len(Matches(c.r))
  IN IF c.r.thrown /= "no" THEN c
     ELSE IF ~m.opp
          THEN NextMatch(Processed(Enq(c, Progress("Opponent not in match", c.r.i, n))),
                         rid, c.r.i + 1)
     ELSE IF ~m.asset
          THEN NextMatch(Processed(Enq(c, Progress("No telemetry available", c.r.i, n))),
                         rid, c.r.i + 1)
     ELSE Get(Enq(c, Progress("Fetching telemetry", c.r.i, n)), rid, "telemetry")

AfterTelemetryNoCompleted(c, rid) ==
  LET m == Matches(c.r)[c.r.i]
      found == ExtractInteractions(m.telemetry)
  IN IF c.r.thrown /= "no" THEN c
     ELSE NextMatch(Processed(Enq(c, MatchRec(c.r.i, m, found))), rid, c.r.i + 1)

AfterTelemetryCollects(c, rid) ==
  LET m == Matches(c.r)[c.r.i]
      found == ExtractInteractions(m.telemetry)
  IN IF c.r.thrown /= "no" THEN c
     ELSE NextMatch(Processed(Enq(c, Progress("Completed match", c.r.i, Len(found)))),
                    rid, c.r.i + 1)

AfterTelemetrySkipsEmpty(c, rid) ==
  LET m == Matches(c.r)[c.r.i]
      found == ExtractInteractions(m.telemetry)
  IN IF c.r.thrown /= "no" THEN c
     ELSE IF found = <<>>
          THEN NextMatch(Processed(Enq(c, Progress("Completed match", c.r.i, 0))),
                         rid, c.r.i + 1)
     ELSE NextMatch(Processed(Enq(Enq(c, MatchRec(c.r.i, m, found)),
                                  Progress("Completed match", c.r.i, Len(found)))),
                    rid, c.r.i + 1)

\* After `await rateLimitedAxiosGet(telemetryUrl)`, route.ts:127-175.
AfterTelemetry(c, rid) ==
  LET m == Matches(c.r)[c.r.i]
      n == Len(Matches(c.r))
      found == ExtractInteractions(m.telemetry)
  IN IF c.r.thrown /= "no" THEN c
     ELSE NextMatch(Processed(Enq(Enq(c, MatchRec(c.r.i, m, found)),
                                  Progress("Completed match", c.r.i, Len(found)))),
                    rid, c.r.i + 1)

Resume(c, rid) ==
  CASE c.r.pending = "players" -> AfterPlayers(c, rid)
    [] c.r.pending = "match" -> AfterMatch(c, rid)
    [] c.r.pending = "telemetry" -> AfterTelemetry(c, rid)

Context(rid) ==
  [r |-> run[rid], ts |-> requestTimestamps, log |-> issued, gate |-> lastGate]

Commit(c, rid) ==
  /\ run' = [run EXCEPT ![rid] = c.r]
  /\ requestTimestamps' = c.ts
  /\ issued' = c.log
  /\ lastGate' = c.gate

PostUnvalidated(rid) ==
  /\ run[rid].pc = "idle"
  /\ Commit(Settle(Catch(Get(Enq(Context(rid), Progress("Fetching player data...", 0, 0)),
                              rid, "players"))), rid)
  /\ UNCHANGED <<now, telemetry, interactions, page, batch>>

\* A request arrives: validation, then start(controller) up to the first await.
Post(rid) ==
  /\ run[rid].pc = "idle"
  /\ LET r == run[rid] IN
     IF ~r.req.key
     THEN run' = [run EXCEPT ![rid].pc = "rejected", ![rid].status = 500,
                             ![rid].body = <<ErrorRec("PUBG API key not configured")>>]
          /\ UNCHANGED <<requestTimestamps, issued, lastGate>>
     ELSE IF ~r.req.player \/ ~r.req.opponent
     THEN run' = [run EXCEPT ![rid].pc = "rejected", ![rid].status = 400,
                             ![rid].body = <<ErrorRec("Player names required")>>]
          /\ UNCHANGED <<requestTimestamps, issued, lastGate>>
     ELSE Commit(Settle(Catch(Get(Enq(Context(rid), Progress("Fetching player data...", 0, 0)),
                                  rid, "players"))), rid)
  /\ UNCHANGED <<now, telemetry, interactions, page, batch>>

\* setTimeout's callback: the sleep is over and axios.get is sent, with no
\* second look at the gate (route.ts:48-50).
TimerFires(rid) ==
  /\ run[rid].pc = "sleeping"
  /\ now >= run[rid].wakeAt
  /\ run' = [run EXCEPT ![rid].pc = "inflight"]
  /\ issued' = Append(issued, Call(rid, run[rid], run[rid].pending, now))
  /\ UNCHANGED <<now, requestTimestamps, lastGate, telemetry, interactions, page, batch>>

Outcomes == {"ok", "upstream-detail", "upstream-plain"}

RespondRetries(rid, outcome) ==
  /\ run[rid].pc = "inflight"
  /\ outcome = "ok" \/ run[rid].world.flaky
  /\ LET c0 == [Answered(Context(rid)) EXCEPT !.r.failed = (outcome /= "ok")]
     IN IF outcome = "ok"
        THEN Commit(Settle(Catch(Resume(c0, rid))), rid)
        ELSE Commit(Settle(Catch(Get(c0, rid, run[rid].pending))), rid)
  /\ UNCHANGED <<now, telemetry, interactions, page, batch>>

\* The awaited axios.get settles: it resolves, or it rejects and the await
\* throws into the try block.
Respond(rid, outcome) ==
  /\ run[rid].pc = "inflight"
  /\ outcome = "ok" \/ run[rid].world.flaky
  /\ LET c0 == [Answered(Context(rid)) EXCEPT
                  !.r.thrown = IF outcome = "ok" THEN "no" ELSE outcome,
                  !.r.failed = (outcome /= "ok")]
     IN Commit(Settle(Catch(Resume(c0, rid))), rid)
  /\ UNCHANGED <<now, telemetry, interactions, page, batch>>

\* The caller disconnects: the response stream is cancelled, which can only
\* happen while start() is suspended.
Cancel(rid) ==
  /\ run[rid].pc \in {"sleeping", "inflight"}
  /\ ~run[rid].cancelled
  /\ run' = [run EXCEPT ![rid].cancelled = TRUE]
  /\ UNCHANGED <<now, requestTimestamps, issued, lastGate, telemetry, interactions, page, batch>>

\* Date.now() moves on.
Tick ==
  /\ now + TickMs <= MaxTime
  /\ now' = now + TickMs
  /\ UNCHANGED <<requestTimestamps, issued, lastGate, run, telemetry, interactions, page, batch>>

\* The interaction filter on its own.
Extract ==
  /\ telemetry /= <<>>
  /\ interactions = <<>>
  /\ interactions' = <<ExtractInteractions(telemetry)>>
  /\ UNCHANGED <<now, requestTimestamps, issued, lastGate, run, telemetry, page, batch>>

----------------------------------------------------------------------------
(* The batch POST handler, unnamed/part_001: the same pipeline without    *)
(* the gate and without a stream, answering with one JSON document.        *)

NoResponse == <<>>

JsonError(status, text) == [status |-> status, tag |-> "error", text |-> text, matches |-> <<>>]

JsonMatches(found) == [status |-> 200, tag |-> "matches", text |-> "", matches |-> found]

\* The names bound in the module scope of part_001 by its import lines 1-2.
BatchImports == {"NextRequest", "NextResponse", "axios"}

\* Evaluating the filter callback of part_001:76-93 on e reads
\* event.victim.accountId, without `?.`, as soon as the type tag fits and an
\* actor role is one of the two players: a TypeError when there is no victim.
BatchFilterThrows(e) ==
  /\ e.victim = None
  /\ \/ e.T \in {"LogPlayerTakeDamage", "LogPlayerMakeGroggy"}
        /\ e.attacker \in {playerId, opponentId}
     \/ e.T = "LogPlayerKillV2"
        /\ \E role \in {e.dBNOMaker, e.finisher, e.killer} : role \in {playerId, opponentId}

\* { id, map, startedAt, interactions }, part_001:111-116.
MatchResult(matchId, m, found) ==
  [id |-> matchId, map |-> m.mapName, startedAt |-> FormatEST(m.createdAt),
   interactions |-> found]

RECURSIVE BatchLoop(_, _, _)
\* The for loop of part_001:55-117 from the k-th id on, sharedMatches = acc,
\* every axios.get resolving.  Anything thrown ends in the catch of line 120.
BatchLoop(matches, k, acc) ==
  IF k > Len(matches) THEN JsonMatches(acc)
  ELSE LET m == matches[k] IN
       IF ~m.opp THEN BatchLoop(matches, k + 1, acc)
       ELSE IF ~m.asset THEN JsonError(500, "Failed to fetch data")
       ELSE IF \E j \in DOMAIN m.telemetry : BatchFilterThrows(m.telemetry[j])
            THEN JsonError(500, "Failed to fetch data")
       ELSE IF ~({"utcToZonedTime", "format"} \subseteq BatchImports)
            THEN JsonError(500, "Failed to fetch data")
       ELSE BatchLoop(matches, k + 1,
                      Append(acc, MatchResult(k, m, ExtractInteractions(m.telemetry))))

\* The batch handler answers the request of run slot 1, against the same
\* upstream.
BatchPost ==
  /\ batch = NoResponse
  /\ LET r == run[1] IN
     batch' = IF ~r.req.key THEN JsonError(500, "PUBG API key not configured")
              ELSE IF ~r.req.player \/ ~r.req.opponent
                   THEN JsonError(400, "Player names required")
              ELSE IF r.world.resolve /= "both"
                   THEN JsonError(404, "One or both players not found")
              ELSE BatchLoop(Matches(r), 1, <<>>)
  /\ UNCHANGED <<now, requestTimestamps, issued, lastGate, run, telemetry, interactions, page>>

----------------------------------------------------------------------------
(* The consumer, page.tsx:57-106: handleSearch reads the response body    *)
(* chunk by chunk and reassembles the newline-delimited records.           *)
(* Text is a sequence of characters; on the wire the character "é" takes   *)
(* two bytes, "L" then "T", every other character one byte.                *)

NL == "\n"

TagChars == {"p", "m"}

TextChars == {"a", "é"}

\* JSON.stringify(message): an object with one key and a string value.
Stringify(rec) == <<"{", rec.tag>> \o rec.text \o <<"}">>

RECURSIVE Encode(_)
\* TextEncoder.encode: UTF-8.
Encode(text) ==
  IF text = <<>> THEN <<>>
  ELSE (IF Head(text) = "é" THEN <<"L", "T">> ELSE <<Head(text)>>) \o Encode(Tail(text))

RECURSIVE Wire(_)
\* What the producer's enqueue puts on the wire for a sequence of records,
\* route.ts:66-68.
Wire(recs) ==
  IF recs = <<>> THEN <<>>
  ELSE Encode(Stringify(Head(recs)) \o <<NL>>) \o Wire(Tail(recs))

RECURSIVE Decode(_, _)
\* TextDecoder.decode(value, {stream: true}): an incomplete character at
\* the end of a chunk is held back (lead) and completed by the next chunk;
\* a malformed sequence yields the replacement character "?".
Decode(bytes, lead) ==
  IF bytes = <<>> THEN [text |-> <<>>, lead |-> lead]
  ELSE LET b == Head(bytes) IN
       IF lead
       THEN IF b = "T"
            THEN LET d == Decode(Tail(bytes), FALSE)
                 IN [text |-> <<"é">> \o d.text, lead |-> d.lead]
            ELSE LET d == Decode(bytes, FALSE)
                 IN [text |-> <<"?">> \o d.text, lead |-> d.lead]
       ELSE IF b = "L" THEN Decode(Tail(bytes), TRUE)
       ELSE LET d == Decode(Tail(bytes), FALSE)
            IN [text |-> <<IF b = "T" THEN "?" ELSE b>> \o d.text, lead |-> d.lead]

RECURSIVE Split(_)
\* buffer.split('\n'): the pieces between the newlines, at least one.
Split(text) ==
  IF text = <<>> THEN <<<<>>>>
  ELSE LET rest == Split(Tail(text)) IN
       IF Head(text) = NL THEN <<<<>>>> \o rest
       ELSE <<<<Head(text)>> \o Head(rest)>> \o Tail(rest)

RemainderDropped(parts) == <<>>

\* buffer = lines.pop() || '': the piece after the last newline is kept.
Remainder(parts) == parts[Len(parts)]

\* JSON.parse(line): throws on anything that is not one whole record.
WellFormed(line) ==
  /\ Len(line) >= 3
  /\ line[1] = "{" /\ line[2] \in TagChars /\ line[Len(line)] = "}"
  /\ \A k \in 3..(Len(line) - 1) : line[k] \in TextChars

JSONparse(line) == [tag |-> line[2], text |-> SubSeq(line, 3, Len(line) - 1)]

RECURSIVE HandleLines(_, _)
\* The for loop over the complete lines, page.tsx:68-104: blank lines are
\* skipped, a line that does not parse is logged and dropped.
HandleLines(lines, st) ==
  IF lines = <<>> THEN st
  ELSE LET line == Head(lines) IN
       HandleLines(Tail(lines),
                   IF line = <<>> THEN st
                   ELSE IF WellFormed(line)
                        THEN [st EXCEPT !.handled = Append(@, JSONparse(line))]
                        ELSE [st EXCEPT !.parseErrors = @ + 1])

NoPage == <<>>

\* reader.read() delivers the next n bytes of the body as one chunk.
Read(n) ==
  /\ page /= NoPage /\ ~page.done
  /\ n \in 1..Len(page.rest)
  /\ LET d == Decode(SubSeq(page.rest, 1, n), page.lead)
         parts == Split(page.buffer \o d.text)
         st == HandleLines(SubSeq(parts, 1, Len(parts) - 1), page)
     IN page' = [st EXCEPT !.rest = SubSeq(page.rest, n + 1, Len(page.rest)),
                           !.lead = d.lead,
                           !.buffer = Remainder(parts),
                           !.midRecord = @ \/ d.lead \/ Remainder(parts) /= <<>>]
  /\ UNCHANGED <<now, requestTimestamps, issued, lastGate, run, telemetry, interactions, batch>>

\* reader.read() reports done: the loop is left.
ReadDone ==
  /\ page /= NoPage /\ ~page.done
  /\ page.rest = <<>>
  /\ page' = [page EXCEPT !.done = TRUE]
  /\ UNCHANGED <<now, requestTimestamps, issued, lastGate, run, telemetry, interactions, batch>>

----------------------------------------------------------------------------
(* Inputs *)

Requests == [key : BOOLEAN, player : BOOLEAN, opponent : BOOLEAN]

GoodRequest == [key |-> TRUE, player |-> TRUE, opponent |-> TRUE]

TelemetrySamples ==
  { <<Dmg(playerId, opponentId)>>,
    <<Dmg("X", playerId)>> }

MatchOf(opp, asset, evs) ==
  [opp |-> opp, asset |-> asset, telemetry |-> evs, mapName |-> "Baltic_Main",
   createdAt |-> [day |-> 2, hour |-> 3, dst |-> FALSE]]

OtherMatch == MatchOf(FALSE, TRUE, <<Dmg("X", playerId)>>)

NoAssetMatch == MatchOf(TRUE, FALSE, <<>>)

SharedMatch == MatchOf(TRUE, TRUE, <<Dmg(playerId, opponentId)>>)

MatchKinds ==
  {OtherMatch, NoAssetMatch} \cup {MatchOf(TRUE, TRUE, evs) : evs \in TelemetrySamples}

\* A healthy upstream and a player all of whose n matches are shared.
SharedWorld(n) ==
  [resolve |-> "both", matches |-> [k \in 1..n |-> SharedMatch], flaky |-> FALSE]

SeqsUpTo(S, n) == UNION {[1..k -> S] : k \in 0..n}

\* What the upstream holds for one request: whether the lookup resolves the
\* two names, and the primary player's matches.
Worlds ==
  [resolve : {"both"}, matches : SeqsUpTo(MatchKinds, MaxMatches), flaky : {TRUE}]
  \cup [resolve : {"noPlayer", "noOpponent", "neither"}, matches : {<<>>}, flaky : {TRUE}]
  \cup {SharedWorld(GateMatches)}

NewRun(req, world, pc) ==
  [pc |-> pc, req |-> req, world |-> world, status |-> 0, body |-> <<>>, pending |-> "none",
   i |-> 0, wakeAt |-> 0, stream |-> <<>>, closes |-> 0, cancelled |-> FALSE,
   lateEnq |-> 0, lateClose |-> 0, thrown |-> "no",
   failed |-> FALSE, listed |-> FALSE, processed |-> 0, answered |-> 0,
   askedAt |-> 0]

OffRun == NewRun(GoodRequest, SharedWorld(0), "off")

InitGlobals ==
  /\ now = 0
  /\ requestTimestamps = <<>>
  /\ issued = <<>>
  /\ lastGate = [called |-> FALSE, before |-> <<>>, at |-> 0, after |-> <<>>, wait |-> 0]
  /\ page = NoPage
  /\ batch = NoResponse

Init ==
  /\ InitGlobals
  /\ \E req \in Requests, w \in Worlds :
       /\ (req /= GoodRequest => w.matches = <<>> /\ w.resolve = "both")
       /\ run = [rid \in Runs |-> IF rid = 1 THEN NewRun(req, w, "idle") ELSE OffRun]
  /\ telemetry = <<>>
  /\ interactions = <<>>

Next ==
  \/ \E rid \in Runs : Post(rid)
  \/ \E rid \in Runs : TimerFires(rid)
  \/ \E rid \in Runs, outcome \in Outcomes : Respond(rid, outcome)
  \/ Tick

Spec == Init /\ [][Next]_vars

NextCancel == Next \/ \E rid \in Runs : Cancel(rid)

SpecCancel == Init /\ [][NextCancel]_vars

\* Time does not stop at the model's horizon while a timer is pending: past
\* MaxTime the clock moves straight to the next pending setTimeout.
Elapse ==
  LET due == {run[rid].wakeAt : rid \in {q \in Runs : run[q].pc = "sleeping"}} IN
  /\ now >= MaxTime
  /\ \E w \in due : w > now /\ (\A v \in due : v >= w) /\ now' = w
  /\ UNCHANGED <<requestTimestamps, issued, lastGate, run, telemetry, interactions, page, batch>>

NextLive == Next \/ Elapse

\* Every call in flight settles: WF_vars(\E outcome : Respond(rid, outcome))
\* written out.  Respond is enabled exactly while the run is in flight (the
\* outcome "ok" is always possible), and a Respond step of the run is a step
\* that counts one more settled call.
RespondFair(rid) ==
  \/ []<>(run[rid].pc /= "inflight")
  \/ []<><<run'[rid].answered = run[rid].answered + 1>>_vars

\* Time passes, every timer fires, every upstream call settles.
Fairness ==
  /\ WF_vars(Tick)
  /\ WF_vars(Elapse)
  /\ \A rid \in Runs : WF_vars(TimerFires(rid)) /\ RespondFair(rid)

\* The requests followed to their end: the unresolved names, the run long
\* enough to be put to sleep by the gate, every match list shorter than
\* MaxMatches, and one list with a skipped, an asset-less and a shared match.
LiveWorlds ==
  {w \in Worlds : Len(w.matches) < MaxMatches \/ ~w.flaky}
  \cup {[resolve |-> "both", matches |-> <<OtherMatch, NoAssetMatch, SharedMatch>>,
         flaky |-> TRUE]}

InitLive ==
  /\ InitGlobals
  /\ \E w \in LiveWorlds :
       run = [rid \in Runs |-> IF rid = 1 THEN NewRun(GoodRequest, w, "idle") ELSE OffRun]
  /\ telemetry = <<>>
  /\ interactions = <<>>

SpecLive == InitLive /\ [][NextLive]_vars /\ Fairness

\* The streaming and the batch handler given the same request against the
\* same healthy upstream.
InitBoth ==
  /\ InitGlobals
  /\ \E w \in Worlds :
       run = [rid \in Runs |->
                IF rid = 1 THEN NewRun(GoodRequest, [w EXCEPT !.flaky = FALSE], "idle")
                ELSE OffRun]
  /\ telemetry = <<>>
  /\ interactions = <<>>

NextBoth == Next \/ BatchPost

SpecBoth == InitBoth /\ [][NextBoth]_vars

\* Two requests in the process at once: one for a player with enough
\* shared matches to use up the quota alone (1 + 2 * (GateMatches - 1)
\* calls), one for a player with no recent match (the lookup only).
InitTwo ==
  /\ InitGlobals
  /\ run = [rid \in Runs |->
              NewRun(GoodRequest,
                     IF rid = 1 THEN SharedWorld(GateMatches - 1) ELSE OffRun.world, "idle")]
  /\ telemetry = <<>>
  /\ interactions = <<>>

SpecTwo == InitTwo /\ [][Next]_vars

\* Inputs of the interaction filter: telemetry logs of up to MaxEvents
\* events, any event last, after events of the common kinds.
CommonEvents ==
  {Dmg(playerId, opponentId), Dmg(opponentId, playerId), Dmg("X", playerId),
   [Dmg(playerId, opponentId) EXCEPT !.T = "LogPlayerMakeGroggy"],
   [Dmg(None, None) EXCEPT !.T = "LogPlayerPosition"]}

TelemetryInputs ==
  {Append(pre, e) : pre \in SeqsUpTo(CommonEvents, MaxEvents - 1), e \in Events}

InitExtract ==
  /\ InitGlobals
  /\ run = [rid \in Runs |-> OffRun]
  /\ telemetry \in TelemetryInputs
  /\ interactions = <<>>

SpecExtract == InitExtract /\ [][Extract]_vars

\* Inputs of the consumer: the records a producer streamed, up to MaxRecords
\* of them with texts of up to MaxText characters.
StreamedRecords == [tag : TagChars, text : SeqsUpTo(TextChars, MaxText)]

NewPage(recs) ==
  [records |-> recs, rest |-> Wire(recs), lead |-> FALSE, buffer |-> <<>>,
   handled |-> <<>>, parseErrors |-> 0, midRecord |-> FALSE, done |-> FALSE]

InitPage ==
  /\ now = 0
  /\ requestTimestamps = <<>>
  /\ issued = <<>>
  /\ lastGate = [called |-> FALSE, before |-> <<>>, at |-> 0, after |-> <<>>, wait |-> 0]
  /\ run = [rid \in Runs |-> OffRun]
  /\ telemetry = <<>>
  /\ interactions = <<>>
  /\ batch = NoResponse
  /\ \E recs \in SeqsUpTo(StreamedRecords, MaxRecords) : page = NewPage(recs)

NextPage == ReadDone \/ \E n \in 1..Len(page.rest) : Read(n)

SpecPage == InitPage /\ [][NextPage]_vars

----------------------------------------------------------------------------
(* Properties *)

Last(q) == q[Len(q)]

Tags(q, tag) == {k \in DOMAIN q : q[k].tag = tag}

Ended(r) == r.pc \in {"done", "crashed"}

\* The calls of run rid sent within the window of length W that ends with
\* the j-th call.
CallsInWindow(rid, j) ==
  {k \in DOMAIN issued :
     /\ issued[k].run = rid
     /\ issued[k].at <= issued[j].at
     /\ issued[j].at - issued[k].at < RATE_WINDOW_MS}

\* C1: of the calls one run sends through rateLimitedAxiosGet, slept-for
\* calls included, no more than RATE_LIMIT fall in any window of
\* RATE_WINDOW_MS.
C1_AtMostQPerWindow ==
  \A j \in DOMAIN issued : Cardinality(CallsInWindow(issued[j].run, j)) <= RATE_LIMIT

\* C2: a match without the opponent among its participants gets no
\* telemetry fetch and no match record, and every match record is for a
\* match with the opponent.
C2_NoOpponentNoTelemetry ==
  \A rid \in Runs :
    LET r == run[rid] IN
    /\ \A k \in DOMAIN Matches(r) :
         ~Matches(r)[k].opp =>
           /\ ~\E c \in DOMAIN issued :
                 issued[c].run = rid /\ issued[c].kind = "telemetry" /\ issued[c].idx = k
           /\ ~\E j \in Tags(r.stream, "match") : r.stream[j].idx = k
    /\ \A j \in Tags(r.stream, "match") :
         r.stream[j].idx \in DOMAIN Matches(r) /\ Matches(r)[r.stream[j].idx].opp

\* A finished run that skipped one match and emitted another.
C2_Witness ==
  \E rid \in Runs :
    /\ run[rid].pc = "done"
    /\ \E k \in DOMAIN Matches(run[rid]) : ~Matches(run[rid])[k].opp
    /\ Tags(run[rid].stream, "match") /= {}
    /\ Tags(run[rid].stream, "matches") /= {}

\* C3: every run closes its stream exactly once, right after the completion
\* marker or an error record, and never attempts an enqueue on a stream
\* that is already closed, whatever enqueue and close throw.
C3_ClosedOnceNoLateEnqueue ==
  \A rid \in Runs :
    LET r == run[rid] IN
    /\ r.lateEnq = 0
    /\ r.closes <= 1
    /\ Ended(r) => /\ r.closes = 1
                   /\ r.stream /= <<>>
                   /\ Last(r.stream).tag \in {"matches", "error"}

IsPrefix(p, q) == Len(p) <= Len(q) /\ \A k \in DOMAIN p : p[k] = q[k]

\* The run ended on an unresolved name or on a failed external call.
ErrorEnd(r) == Ended(r) /\ r.req = GoodRequest /\ (r.failed \/ r.world.resolve /= "both")

\* C4: a run that ends in an error has exactly one error record, which is
\* the last record of its closed stream, and the records streamed before
\* it, the match records among them, stay as they were.
C4_OneErrorLastAndNothingRetracted ==
  /\ [](\A rid \in Runs :
         ErrorEnd(run[rid]) =>
           /\ run[rid].pc = "done"
           /\ Cardinality(Tags(run[rid].stream, "error")) = 1
           /\ Last(run[rid].stream).tag = "error"
           /\ run[rid].closes = 1)
  /\ [][\A rid \in Runs : IsPrefix(run[rid].stream, run'[rid].stream)]_vars

\* A telemetry fetch failed after a match record had been streamed.
C4_Witness ==
  \E rid \in Runs :
    /\ ErrorEnd(run[rid])
    /\ run[rid].failed
    /\ run[rid].pending = "telemetry"
    /\ Tags(run[rid].stream, "match") /= {}

AllProcessed(r) == r.listed /\ r.processed = Len(Matches(r)) /\ ~r.failed

\* C5: the completion marker is emitted exactly when every match id of the
\* list was processed and no external call failed; it is emitted once, is
\* the last record, and never shares a stream with an error record.
C5_MarkerIffAllProcessed ==
  \A rid \in Runs :
    LET r == run[rid]
        marks == Tags(r.stream, "matches")
    IN /\ Cardinality(marks) <= 1
       /\ marks /= {} => /\ Last(r.stream).tag = "matches"
                         /\ Tags(r.stream, "error") = {}
                         /\ AllProcessed(r)
       /\ (Ended(r) /\ r.req = GoodRequest) => (marks /= {} <=> AllProcessed(r))

\* A run over a list of several matches ended with the marker.
C5_Witness ==
  \E rid \in Runs :
    /\ run[rid].pc = "done"
    /\ Len(Matches(run[rid])) >= 2
    /\ Tags(run[rid].stream, "matches") /= {}
    /\ Tags(run[rid].stream, "match") /= {}

\* Two resolvable names, three matches of which only the second has the
\* opponent, with one qualifying damage event; no call fails.
C6_Scenario(r) ==
  /\ r.pc = "done"
  /\ r.req = GoodRequest
  /\ r.world.resolve = "both"
  /\ r.world.matches = <<OtherMatch, SharedMatch, OtherMatch>>
  /\ ~r.failed

C6_Interaction ==
  [type |-> "LogPlayerTakeDamage", timestamp |-> 1,
   attacker |-> NameOf(playerId), victim |-> NameOf(opponentId)]

\* C6 as stated: the scenario's stream is the eight records progress,
\* progress, progress(skip 1), progress(processing 2), match(2, one
\* interaction), progress(skip 3), progress(complete), matches([]).
C6_StreamOfEight ==
  \A rid \in Runs :
    C6_Scenario(run[rid]) =>
      LET q == run[rid].stream IN
      /\ Len(q) = 8
      /\ q[1].tag = "progress" /\ q[2].tag = "progress"
      /\ q[3] = Progress("Opponent not in match", 1, 3)
      /\ q[4] = Progress("Processing match", 2, 3)
      /\ q[5].tag = "match" /\ q[5].idx = 2 /\ Len(q[5].interactions) = 1
      /\ q[6] = Progress("Opponent not in match", 3, 3)
      /\ q[7] = Progress("Processing complete!", 0, 0)
      /\ q[8] = Marker

\* C6 amended: the scenario's stream is the twelve records the handler
\* enqueues, a "Processing match" record before every match fetch and a
\* "Fetching telemetry" and a "Completed match" record around the match
\* record included.
C6_StreamOfTwelve ==
  \A rid \in Runs :
    C6_Scenario(run[rid]) =>
      run[rid].stream =
        << Progress("Fetching player data...", 0, 0),
           Progress("Found recent matches", 0, 3),
           Progress("Processing match", 1, 3),
           Progress("Opponent not in match", 1, 3),
           Progress("Processing match", 2, 3),
           Progress("Fetching telemetry", 2, 3),
           MatchRec(2, SharedMatch, <<C6_Interaction>>),
           Progress("Completed match", 2, 1),
           Progress("Processing match", 3, 3),
           Progress("Opponent not in match", 3, 3),
           Progress("Processing complete!", 0, 0),
           Marker >>

C6_Witness == \E rid \in Runs : C6_Scenario(run[rid])

\* The lookup answered and did not resolve the opponent's name.
C7_Scenario(r) ==
  /\ r.pc = "done"
  /\ r.req = GoodRequest
  /\ r.world.resolve = "noOpponent"
  /\ ~r.failed

\* C7 as stated: with the opponent unresolved the stream is exactly one
\* error record, then closed, with no match record before it.
C7_StreamIsOneError ==
  \A rid \in Runs :
    C7_Scenario(run[rid]) =>
      /\ Len(run[rid].stream) = 1
      /\ run[rid].stream[1].tag = "error"
      /\ run[rid].closes = 1

\* C7 amended: with the opponent unresolved the stream is the progress
\* record "Fetching player data..." followed by exactly one error record,
\* then closed; no match record precedes the error record.
C7_StreamIsProgressThenError ==
  \A rid \in Runs :
    C7_Scenario(run[rid]) =>
      /\ run[rid].stream = << Progress("Fetching player data...", 0, 0),
                              ErrorRec("One or both players not found") >>
      /\ run[rid].closes = 1
      /\ Tags(run[rid].stream, "match") = {}

C7_Witness == \E rid \in Runs : C7_Scenario(run[rid])

LiveBefore(g) == {k \in DOMAIN g.before : g.at - g.before[k] < RATE_WINDOW_MS}

\* C8: an enforceRateLimit call that finds RATE_LIMIT unexpired timestamps
\* returns the positive wait W - (now - requestTimestamps[0]) and adds no
\* timestamp; one that finds fewer records now and returns 0.
C8_GateVerdict ==
  lastGate.called =>
    IF Cardinality(LiveBefore(lastGate)) >= RATE_LIMIT
    THEN /\ lastGate.wait > 0
         /\ lastGate.wait = RATE_WINDOW_MS - (lastGate.at - lastGate.after[1])
         /\ Len(lastGate.after) = Cardinality(LiveBefore(lastGate))
         /\ \A k \in DOMAIN lastGate.after :
              \E b \in LiveBefore(lastGate) : lastGate.before[b] = lastGate.after[k]
         /\ requestTimestamps = lastGate.after
    ELSE /\ lastGate.wait = 0
         /\ Len(lastGate.after) = Cardinality(LiveBefore(lastGate)) + 1
         /\ Last(lastGate.after) = lastGate.at

\* The call after RATE_LIMIT calls recorded within the window was made to wait.
C8_Witness ==
  /\ lastGate.called
  /\ Cardinality(LiveBefore(lastGate)) = RATE_LIMIT
  /\ lastGate.wait > 0
  /\ lastGate.at > lastGate.before[1]

\* C9: the ledger never holds more than RATE_LIMIT timestamps newer than
\* the window.
C9_LedgerBounded ==
  Cardinality({k \in DOMAIN requestTimestamps :
                 now - requestTimestamps[k] < RATE_WINDOW_MS}) <= RATE_LIMIT

\* The ledger is full of unexpired timestamps put there by both runs.
C9_Witness ==
  /\ Len(requestTimestamps) = RATE_LIMIT
  /\ \A k \in DOMAIN requestTimestamps : now - requestTimestamps[k] < RATE_WINDOW_MS
  /\ \A rid \in Runs : \E c \in DOMAIN issued : issued[c].run = rid
  /\ \E rid \in Runs : run[rid].pc = "sleeping"

DirectHit(e) ==
  /\ e.T \in {"LogPlayerTakeDamage", "LogPlayerMakeGroggy"}
  /\ \/ e.attacker = playerId /\ e.victim = opponentId
     \/ e.attacker = opponentId /\ e.victim = playerId

\* C10: the interactions are the qualifying events, each once and in input
\* order, and a damage or incapacitation event qualifies in either
\* direction between the two players.
C10_OrderAndDirection ==
  interactions /= <<>> =>
    LET out == interactions[1]
        qual == {k \in DOMAIN telemetry : Qualifies(telemetry[k])}
    IN /\ Len(out) = Cardinality(qual)
       /\ \A j \in DOMAIN out :
            /\ out[j].timestamp \in qual
            /\ out[j].type = telemetry[out[j].timestamp].T
       /\ \A j \in DOMAIN out : j < Len(out) => out[j].timestamp < out[j + 1].timestamp
       /\ \A k \in DOMAIN telemetry :
            DirectHit(telemetry[k]) => \E j \in DOMAIN out : out[j].timestamp = k

\* A damages B, then B damages A: both are extracted, in that order.
C10_Witness ==
  /\ telemetry = <<Dmg(playerId, opponentId), Dmg(opponentId, playerId)>>
  /\ interactions /= <<>>
  /\ Len(interactions[1]) = 2
  /\ interactions[1][1].attacker = NameOf(playerId)
  /\ interactions[1][2].attacker = NameOf(opponentId)

Pair(a, b) == {a, b} = {playerId, opponentId}

\* C11: a kill event qualifies as soon as one of dBNOMaker, finisher and
\* killer forms the pair with the victim, in either direction, whatever the
\* other two roles hold.
C11_KillAnyRole ==
  interactions /= <<>> =>
    \A k \in DOMAIN telemetry :
      LET e == telemetry[k] IN
      (/\ e.T = "LogPlayerKillV2"
       /\ Pair(e.dBNOMaker, e.victim) \/ Pair(e.finisher, e.victim) \/ Pair(e.killer, e.victim))
      => \E j \in DOMAIN interactions[1] :
           interactions[1][j].timestamp = k /\ interactions[1][j].type = "LogPlayerKillV2"

\* A kill by the opponent as killer, downed by a third player, no finisher.
C11_Witness ==
  /\ interactions /= <<>>
  /\ \E k \in DOMAIN telemetry :
       /\ telemetry[k].T = "LogPlayerKillV2"
       /\ telemetry[k].dBNOMaker = "X"
       /\ telemetry[k].finisher = None
       /\ telemetry[k].killer = opponentId
       /\ telemetry[k].victim = playerId
       /\ \E j \in DOMAIN interactions[1] : interactions[1][j].timestamp = k

\* C12: once the caller has disconnected, the run issues no further external
\* call: every call in the log was sent while the caller was still connected
\* (a call already in flight at the disconnect was sent before it).
C12_NoCallAfterDisconnect ==
  \A k \in DOMAIN issued : ~issued[k].cancelled

\* The calls of all runs sent within the window that ends with the j-th call.
AllCallsInWindow(j) ==
  {k \in DOMAIN issued :
     /\ issued[k].at <= issued[j].at
     /\ issued[j].at - issued[k].at < RATE_WINDOW_MS}

\* C13: the calls of two concurrent runs, taken together, never exceed
\* RATE_LIMIT in any window of RATE_WINDOW_MS.
C13_CombinedAtMostQPerWindow ==
  \A j \in DOMAIN issued : Cardinality(AllCallsInWindow(j)) <= RATE_LIMIT

\* C14: a request without the credential or without one of the two names is
\* answered with a single error record (500 without the credential, else
\* 400); no stream is opened, no external call is made and the ledger is
\* left as it was.
C14_RejectedBeforeStream ==
  LET r == run[1] IN
  (r.req /= GoodRequest /\ r.pc /= "idle") =>
    /\ r.pc = "rejected"
    /\ r.status = (IF ~r.req.key THEN 500 ELSE 400)
    /\ Len(r.body) = 1 /\ r.body[1].tag = "error"
    /\ r.stream = <<>> /\ r.closes = 0
    /\ issued = <<>>
    /\ requestTimestamps = <<>> /\ ~lastGate.called

\* The credential is there and the opponent's name is empty: rejected with 400.
C14_Witness ==
  /\ run[1].req.key /\ run[1].req.player /\ ~run[1].req.opponent
  /\ run[1].pc = "rejected"
  /\ run[1].status = 400

\* C15: a run that the gate has put to sleep has told its caller so: the
\* last record it streamed before sleeping is a progress record about the
\* wait ("Waiting N seconds", the text the page's countdown looks for).
C15_WaitIsNarrated ==
  \A rid \in Runs :
    LET r == run[rid] IN
    r.pc = "sleeping" =>
      /\ r.stream /= <<>>
      /\ Last(r.stream).tag = "progress"
      /\ Last(r.stream).text = "Waiting"

IsMatchRec(x) == x.tag = "match"

\* The positions in the match id list, in list order, of the matches a run
\* reports: the ones with the opponent and a telemetry asset.
Reportable(r) ==
  LET Keep(k) == Matches(r)[k].opp /\ Matches(r)[k].asset
  IN SelectSeq([k \in 1..Len(Matches(r)) |-> k], Keep)

MatchRecIds(r) ==
  LET recs == SelectSeq(r.stream, IsMatchRec) IN [j \in DOMAIN recs |-> recs[j].idx]

Completed(r) == r.pc = "done" /\ r.stream /= <<>> /\ Last(r.stream).tag = "matches"

\* C16: in a run that completes without error the match records are, in the
\* order of the match id list and once each, exactly the listed matches that
\* have the opponent and a telemetry asset, those with no interaction
\* included.
C16_OneRecordPerReportableMatch ==
  \A rid \in Runs :
    Completed(run[rid]) => MatchRecIds(run[rid]) = Reportable(run[rid])

\* A completed run over three matches: one reported with no interaction,
\* one skipped, one reported with interactions.
C16_Witness ==
  LET r == run[1] IN
  /\ Completed(r)
  /\ Len(Matches(r)) = 3
  /\ Reportable(r) = <<1, 3>>
  /\ \E j \in DOMAIN r.stream :
       IsMatchRec(r.stream[j]) /\ r.stream[j].idx = 1 /\ r.stream[j].interactions = <<>>
  /\ \E j \in DOMAIN r.stream :
       IsMatchRec(r.stream[j]) /\ r.stream[j].idx = 3 /\ r.stream[j].interactions /= <<>>

\* The calls of run rid, as positions in the log, in the order sent.
CallsOf(rid) == {k \in DOMAIN issued : issued[k].run = rid}

\* C17: a run has at most one call in flight: every call is sent when all
\* the run's earlier calls have settled; a match fetch is sent when all the
\* earlier match ids are dealt with; a telemetry fetch is sent after the
\* fetch of its own match has settled.
C17_OneCallInFlight ==
  \A rid \in Runs :
    LET r == run[rid] IN
    /\ Cardinality(CallsOf(rid)) - r.answered = (IF r.pc = "inflight" THEN 1 ELSE 0)
    /\ \A k \in CallsOf(rid) :
         LET call == issued[k]
             earlier == {j \in CallsOf(rid) : j < k}
         IN /\ call.answered = Cardinality(earlier)
            /\ call.kind = "match" => call.processed = call.idx - 1
            /\ call.kind = "telemetry" =>
                 \E j \in earlier :
                   /\ issued[j].kind = "match" /\ issued[j].idx = call.idx
                   /\ \A l \in earlier : l <= j

\* The telemetry fetch of the second match is in flight; the lookup and the
\* three fetches before it have settled.
C17_Witness ==
  LET r == run[1] IN
  /\ r.pc = "inflight" /\ r.pending = "telemetry" /\ r.i = 2
  /\ r.answered = 4
  /\ Cardinality(CallsOf(1)) = 5

\* The fetch of the k-th match of run rid was sent and has resolved.
FetchedOk(rid, k) ==
  \E c \in CallsOf(rid) :
    LET p == Cardinality({j \in CallsOf(rid) : j <= c}) IN
    /\ issued[c].kind = "match" /\ issued[c].idx = k
    /\ run[rid].answered >= p
    /\ ~(run[rid].failed /\ run[rid].answered = p)

\* C18: a match with the opponent and without a telemetry asset gets no
\* telemetry fetch and no match record; once it is fetched the run streams
\* the informational record for it and goes straight on, to the next match
\* or to the completion, without an error record.
C18_NoAssetSkipped ==
  \A rid \in Runs :
    LET r == run[rid]
        n == Len(Matches(r))
    IN \A k \in 1..n :
         (Matches(r)[k].opp /\ ~Matches(r)[k].asset) =>
           /\ \A c \in CallsOf(rid) : ~(issued[c].kind = "telemetry" /\ issued[c].idx = k)
           /\ \A j \in DOMAIN r.stream : ~(IsMatchRec(r.stream[j]) /\ r.stream[j].idx = k)
           /\ FetchedOk(rid, k) =>
                \E j \in DOMAIN r.stream :
                  /\ r.stream[j] = Progress("No telemetry available", k, n)
                  /\ j < Len(r.stream)
                  /\ r.stream[j + 1] = (IF k < n THEN Progress("Processing match", k + 1, n)
                                        ELSE Progress("Processing complete!", 0, 0))

\* The first match has no asset and the run is fetching the second.
C18_Witness ==
  LET r == run[1] IN
  /\ Len(Matches(r)) >= 2
  /\ Matches(r)[1] = NoAssetMatch
  /\ FetchedOk(1, 1)
  /\ r.pending = "match" /\ r.i = 2 /\ r.pc = "inflight"

\* C19: no request of a run is sent twice, and a run one of whose calls has
\* failed is over, in error, with no call sent after the failed one.
C19_NoRetryAfterFailure ==
  \A rid \in Runs :
    LET r == run[rid] IN
    /\ \A j, k \in CallsOf(rid) :
         (issued[j].kind = issued[k].kind /\ issued[j].idx = issued[k].idx) => j = k
    /\ r.failed =>
         /\ r.pc = "done"
         /\ Cardinality(CallsOf(rid)) = r.answered
         /\ Last(r.stream).tag = "error"

\* The telemetry fetch of the first match has failed.
C19_Witness ==
  LET r == run[1] IN
  /\ r.failed
  /\ r.pending = "telemetry" /\ r.i = 1
  /\ Cardinality(CallsOf(1)) = 3

\* The match record of the j-th listed match is among the first `upto`
\* records of the stream of r.
RecordedBy(r, j, upto) ==
  \E p \in 1..upto : IsMatchRec(r.stream[p]) /\ r.stream[p].idx = j

\* C20: when the fetch of the k-th match is sent, and when the run begins to
\* sleep for it, the match record of every earlier listed match that has
\* one is already on the stream.
C20_RecordBeforeNextFetch ==
  \A rid \in Runs :
    LET r == run[rid]
        Due(k) == {j \in 1..(k - 1) : Matches(r)[j].opp /\ Matches(r)[j].asset}
    IN /\ \A c \in CallsOf(rid) :
            issued[c].kind = "match" =>
              \A j \in Due(issued[c].idx) : RecordedBy(r, j, issued[c].streamed)
       /\ (r.pc = "sleeping" /\ r.pending = "match") =>
            \A j \in Due(r.i) : RecordedBy(r, j, Len(r.stream))

\* A run sleeps at the gate before the fetch of its fifth match, the record
\* of the fourth on its stream; the fetch of the fourth was sent after the
\* record of the third.
C20_Witness ==
  \E rid \in Runs :
    LET r == run[rid] IN
    /\ r.pc = "sleeping" /\ r.pending = "match" /\ r.i >= 2
    /\ RecordedBy(r, r.i - 1, Len(r.stream))
    /\ \E c \in CallsOf(rid) :
         /\ issued[c].kind = "match" /\ issued[c].idx = r.i - 1
         /\ issued[c].idx >= 2
         /\ RecordedBy(r, r.i - 2, issued[c].streamed)

\* C21: the gate only delays: of two calls, the one sent first is not the
\* one that came to the gate (enforceRateLimit) at the later time.
C21_GateKeepsOrder ==
  \A j, k \in DOMAIN issued : j < k => issued[j].asked <= issued[k].asked

\* C22: however the body is cut into chunks, the records handled by the
\* read loop are at every moment a prefix of the records streamed, and
\* when the body is read to its end they are exactly these records, each
\* once and in order, and no line failed to parse.
C22_HandledIsStreamed ==
  page /= NoPage =>
    /\ IsPrefix(page.handled, page.records)
    /\ page.parseErrors = 0
    /\ page.done => page.handled = page.records /\ page.buffer = <<>> /\ ~page.lead

\* Two records were read to the end, and some chunk ended inside a record.
C22_Witness ==
  /\ page /= NoPage
  /\ page.done /\ page.midRecord
  /\ Len(page.records) = 2
  /\ page.handled = page.records

\* C23: the wait returned by enforceRateLimit is 0 or lies in
\* 0 < wait <= RATE_WINDOW_MS, and the ledger is in non-decreasing time
\* order, its first entry the oldest, none of them in the future.
C23_WaitInRangeLedgerOrdered ==
  /\ lastGate.wait >= 0 /\ lastGate.wait <= RATE_WINDOW_MS
  /\ \A j, k \in DOMAIN requestTimestamps :
       j < k => requestTimestamps[j] <= requestTimestamps[k]
  /\ \A k \in DOMAIN requestTimestamps :
       requestTimestamps[1] <= requestTimestamps[k] /\ requestTimestamps[k] <= now

\* The gate has just returned a wait shorter than the window, computed from
\* the oldest of timestamps of two different instants.
C23_Witness ==
  /\ lastGate.called
  /\ lastGate.wait > 0 /\ lastGate.wait < RATE_WINDOW_MS
  /\ requestTimestamps = lastGate.after
  /\ requestTimestamps[1] < requestTimestamps[Len(requestTimestamps)]

\* C24: the attacker and the victim reported by an interaction are the two
\* players of interest, one each.
C24_PartiesAreThePair ==
  interactions /= <<>> =>
    \A j \in DOMAIN interactions[1] :
      {interactions[1][j].attacker, interactions[1][j].victim}
        = {NameOf(playerId), NameOf(opponentId)}

Terminated(r) ==
  /\ r.pc = "done"
  /\ r.closes = 1
  /\ Last(r.stream).tag \in {"matches", "error"}

\* C25: a run whose stream was opened ends: it streams the completion marker
\* or an error record last and closes the stream.
C25_RunTerminates ==
  \A rid \in Runs : (run[rid].pc \in {"inflight", "sleeping"}) ~> Terminated(run[rid])

\* A run that slept past the model's horizon has completed.
C25_Witness ==
  /\ Terminated(run[1])
  /\ Last(run[1].stream).tag = "matches"
  /\ now > MaxTime
  /\ \E c \in CallsOf(1) : issued[c].asked < issued[c].at

CallsOfKind(rid, kind) == {c \in CallsOf(rid) : issued[c].kind = kind}

\* C26: a run makes one player lookup and nothing else when a name is
\* unresolved; a run that completes makes the lookup, one match fetch per
\* listed id and one telemetry fetch per match with the opponent and an
\* asset, and no other call.
C26_CallCount ==
  \A rid \in Runs :
    LET r == run[rid] IN
    /\ (r.pc = "done" /\ ~r.failed /\ r.world.resolve /= "both") =>
         /\ Cardinality(CallsOf(rid)) = 1
         /\ Cardinality(CallsOfKind(rid, "players")) = 1
    /\ Completed(r) =>
         /\ Cardinality(CallsOf(rid)) = 1 + Len(Matches(r)) + Len(Reportable(r))
         /\ Cardinality(CallsOfKind(rid, "players")) = 1
         /\ Cardinality(CallsOfKind(rid, "match")) = Len(Matches(r))
         /\ Cardinality(CallsOfKind(rid, "telemetry")) = Len(Reportable(r))

\* A completed run over three matches, one of them reported: five calls.
C26_Witness ==
  /\ Completed(run[1])
  /\ Len(Matches(run[1])) = 3
  /\ Len(Reportable(run[1])) = 1
  /\ Cardinality(CallsOf(1)) = 5
  /\ \E k \in 1..3 : ~Matches(run[1])[k].asset

\* The match records of a stream, as the match results they carry.
StreamedMatches(r) ==
  LET recs == SelectSeq(r.stream, IsMatchRec) IN
  [j \in DOMAIN recs |->
     [id |-> recs[j].idx, map |-> recs[j].map, startedAt |-> recs[j].startedAt,
      interactions |-> recs[j].interactions]]

\* C27: when both names resolve, no call fails, every match with the
\* opponent has a telemetry asset and every event has a victim, the batch
\* handler answers with the matches array that the streaming handler
\* streamed as match records, in the same order.
C27_StreamEqualsBatch ==
  LET r == run[1] IN
  (/\ Completed(r)
   /\ batch /= NoResponse
   /\ \A k \in DOMAIN Matches(r) :
        /\ Matches(r)[k].opp => Matches(r)[k].asset
        /\ \A j \in DOMAIN Matches(r)[k].telemetry : Matches(r)[k].telemetry[j].victim /= None)
  => /\ batch.tag = "matches"
     /\ batch.matches = StreamedMatches(r)

====
